---- MODULE Spec2Model ----
(***************************************************************************)
(* Model of mbash (src/src/main.rs, src/src/app.rs,                        *)
(* src/src/helper_functions.rs): an interactive shell loop that reads a    *)
(* line, splits it into tokens and dispatches it.                          *)
(*                                                                         *)
(* Strings are sequences of one-character strings, so trimming and         *)
(* splitting are computed on characters.  A path (PathBuf) is the sequence *)
(* of its components, the root being <<"/">> and PathBuf::new() being <<>>.*)
(* The operating system is part of the state: the process's working        *)
(* directory and the files that exist.  The OS calls that may fail, and    *)
(* the order in which a directory is listed, take their outcome from the   *)
(* input "fault" of the step.                                              *)
(***************************************************************************)
EXTENDS Naturals, Sequences, FiniteSets

VARIABLES
    pc,              \* position of main/run: "start", "loop", "read", "done", "panicked"
    exiting,         \* Mbash.exiting
    current_path,    \* Mbash.current_path
    tracking_files,  \* Mbash.tracking_files
    cwd,             \* the process's working directory, as the OS holds it
    files,           \* the files that exist: <<directory, name>> -> contents
    input,           \* run(): the String read in the current iteration
    log,             \* log events emitted in the current iteration (all of them at "start")
    stdout,          \* what the current iteration printed to standard output
    stderr,          \* what the process printed to standard error
    calls,           \* the methods entered in the current iteration, in order
    spawned,         \* the child processes launched in the current iteration
    iter,            \* number of loop iterations started (prompts printed)
    reads,           \* number of read_line calls made
    exit_status      \* the status the process ended with, "none" while it runs

vars == <<pc, exiting, current_path, tracking_files, cwd, files, input, log,
          stdout, stderr, calls, spawned, iter, reads, exit_status>>

----------------------------------------------------------------------------
(* Bounds of the model *)

\* loop iterations explored
MaxIter == 2
\* arguments after the command name in the lines read
MaxArgs == 1
\* method calls explored when the methods are called in any order
MaxOps == 2

----------------------------------------------------------------------------
(* Characters and strings *)

\* char::is_whitespace, restricted to the characters used here
IsWhitespace(c) == c \in {" ", "\t", "\n", "\r"}

RECURSIVE TrimStart(_)
TrimStart(s) ==
    IF s = <<>> THEN <<>>
    ELSE IF IsWhitespace(Head(s)) THEN TrimStart(Tail(s))
    ELSE s

RECURSIVE TrimEnd(_)
TrimEnd(s) ==
    IF s = <<>> THEN <<>>
    ELSE IF IsWhitespace(s[Len(s)]) THEN TrimEnd(SubSeq(s, 1, Len(s) - 1))
    ELSE s

\* str::trim
Trim(s) == TrimEnd(TrimStart(s))

\* str::split_whitespace: cur is the token being read, acc the tokens read
RECURSIVE SplitWs(_, _, _)
SplitWs(s, cur, acc) ==
    IF s = <<>> THEN (IF cur = <<>> THEN acc ELSE Append(acc, cur))
    ELSE IF IsWhitespace(Head(s))
         THEN SplitWs(Tail(s), <<>>, IF cur = <<>> THEN acc ELSE Append(acc, cur))
         ELSE SplitWs(Tail(s), Append(cur, Head(s)), acc)

\* str::split(sep): every separator ends a piece, empty pieces are kept
RECURSIVE SplitOn(_, _, _, _)
SplitOn(s, sep, cur, acc) ==
    IF s = <<>> THEN Append(acc, cur)
    ELSE IF Head(s) = sep
         THEN SplitOn(Tail(s), sep, <<>>, Append(acc, cur))
         ELSE SplitOn(Tail(s), sep, Append(cur, Head(s)), acc)

split(s, sep) == SplitOn(s, sep, <<>>, <<>>)

\* the tokenizer written with split(' '): one space is one separator
split_on_single_spaces(s) == split(s, " ")

\* str::split_whitespace
split_whitespace(s) == SplitWs(s, <<>>, <<>>)

----------------------------------------------------------------------------
(* Program constants *)

internal_command_prefix == <<"m">>
exit_command == <<"e", "x", "i", "t">>
CdName == <<"c", "d">>
LsName == <<"l", "s">>
InitName == <<"i", "n", "i", "t">>
TRACKING_FILE_NAME == ".mtracking"
IGNORE_FILE_NAME == ".mignoring"

----------------------------------------------------------------------------
(* The file system the shell runs in *)

Root == <<"/">>
\* the directories that exist
Dirs == {Root, <<"/", "a">>, <<"/", "a", "b">>, <<"/", "k">>}
\* directories the process may neither enter nor read (no permission)
Locked == {<<"/", "k">>}
\* the directory the process is started in
StartDir == <<"/", "a">>
\* what a tracking file found at startup may hold
TrackContents == {<<>>, <<"x">>, <<"x", "\n", "y">>}

Parent(d) == IF Len(d) <= 1 THEN Root ELSE SubSeq(d, 1, Len(d) - 1)

\* one path component applied to directory d: [ok, dir]
Step(d, comp) ==
    IF comp = <<>> \/ comp = <<".">> THEN [ok |-> TRUE, dir |-> d]
    ELSE IF comp = <<".", ".">> THEN [ok |-> TRUE, dir |-> Parent(d)]
    ELSE IF comp # <<>> /\ Len(comp) = 1 /\ Append(d, comp[1]) \in Dirs \ Locked
         THEN [ok |-> TRUE, dir |-> Append(d, comp[1])]
         ELSE [ok |-> FALSE, dir |-> d]

RECURSIVE Walk(_, _)
Walk(d, comps) ==
    IF comps = <<>> THEN [ok |-> TRUE, dir |-> d]
    ELSE LET r == Step(d, Head(comps))
         IN  IF r.ok THEN Walk(r.dir, Tail(comps)) ELSE r

\* chdir(2) as env::set_current_dir calls it: the path is resolved from the
\* root when it starts with "/", from the working directory otherwise
chdir(from, path) ==
    IF path = <<>> THEN [ok |-> FALSE, dir |-> from]
    ELSE Walk(IF Head(path) = "/" THEN Root ELSE from, split(path, "/"))

\* the entries of directory d: its sub-directories and the files in it
Entries(d, fs) ==
    {[name |-> x[Len(x)], is_dir |-> TRUE] :
        x \in {y \in Dirs : Len(y) = Len(d) + 1 /\ SubSeq(y, 1, Len(d)) = d}}
    \cup {[name |-> f[2], is_dir |-> FALSE] : f \in {g \in DOMAIN fs : g[1] = d}}

\* the sequences that list every element of S once
Orders(S) ==
    {o \in [1..Cardinality(S) -> S] : \A i, j \in 1..Cardinality(S) : o[i] = o[j] => i = j}

\* the entries o with an outcome of entry.file_type() for each
Typed(o) ==
    {[i \in 1..Len(o) |-> [name |-> o[i].name, is_dir |-> o[i].is_dir, type_ok |-> t[i]]] :
        t \in [1..Len(o) -> BOOLEAN]}

\* the entries the loop over fs::read_dir(d) may have gone through when it
\* stops: the first n in the order the file system returns them (any order)
Runs(d, fs) ==
    UNION {Typed(SubSeq(o, 1, n)) :
              o \in Orders(Entries(d, fs)), n \in 0..Cardinality(Entries(d, fs))}

\* the entry is printed: a directory, or an entry of unknown type
Prints(e) == e.is_dir \/ ~e.type_ok

\* how the loop over fs::read_dir(d) can go: [listed, end].  It ends at the
\* end of the stream, after every entry ("end"); at the first readdir call
\* that fails ("error"); or in the println! of the last entry listed, which
\* panics when the write to stdout fails ("panic")
read_dir(d, fs) ==
    {r \in [listed : Runs(d, fs), end : {"end", "error", "panic"}] :
        /\ r.end = "end" => Len(r.listed) = Cardinality(Entries(d, fs))
        /\ r.end = "panic" => (r.listed # <<>> /\ Prints(r.listed[Len(r.listed)]))}

----------------------------------------------------------------------------
(* The session: the fields of Mbash together with the OS state and the     *)
(* output streams, threaded through the methods as a record.               *)

\* Every method takes "fault", the outcome of the OS calls of the step:
\* fault.fails is the set of the calls that fail, each call named with the
\* file it is made on, all others succeed; fault.listing is how the loop
\* over the directory goes.

NoListing == [listed |-> <<>>, end |-> "end"]
NoFault == [fails |-> {}, listing |-> NoListing]

Emit(s, level, msg) == [s EXCEPT !.log = Append(@, <<level, msg>>)]
Enter(s, method) == [s EXCEPT !.calls = Append(@, method)]
\* a panic unwinds out of run and main: nothing after it is executed
Panic(s, msg) == [s EXCEPT !.panicked = TRUE, !.stderr = Append(@, msg)]

\* Mbash::new
new == [exiting |-> FALSE, current_path |-> <<>>, tracking_files |-> <<>>]

\* exit without the store: the flag is read but never set
exit_without_store(s) == Enter(s, "exit")

\* exit that reports every call
exit_logs_each_call(s) ==
    LET s0 == Emit(Enter(s, "exit"), "INFO", "Received 'exit' command, exiting mbash.")
    IN  [s0 EXCEPT !.exiting = TRUE]

\* exit that flips the flag instead of setting it
exit_toggles(s) ==
    LET s0 == Enter(s, "exit")
    IN  [s0 EXCEPT !.exiting = ~@]

\* Mbash::exit
exit(s) ==
    LET s0 == Enter(s, "exit")
    IN  IF s0.exiting THEN s0
        ELSE [s0 EXCEPT !.exiting = TRUE]

\* set_current_dir that fetches the directory and drops it
set_current_dir_keeps_path(s, fault) ==
    LET s0 == Enter(s, "set_current_dir")
    IN  IF <<"getcwd">> \notin fault.fails
        THEN s0
        ELSE exit(Emit(s0, "ERROR", "Failed to fetch current directory path."))

\* Mbash::set_current_dir
set_current_dir(s, fault) ==
    LET s0 == Enter(s, "set_current_dir")
    IN  IF <<"getcwd">> \notin fault.fails
        THEN [s0 EXCEPT !.current_path = s0.cwd]
        ELSE exit(Emit(s0, "ERROR", "Failed to fetch current directory path."))

\* helper_functions::attempt_create_file: [s, ok]
attempt_create_file(s, file_name, fault) ==
    IF <<"exists", file_name>> \in fault.fails
    THEN [s |-> Emit(s, "ERROR", "An error occured while trying to determine whether file exists or not."),
          ok |-> FALSE]
    ELSE IF <<s.cwd, file_name>> \in DOMAIN s.files
    THEN [s |-> Emit(s, "DEBUG", "already exists."), ok |-> TRUE]
    ELSE LET s1 == Emit(Emit(s, "DEBUG", "doesn't exist!"),
                        "DEBUG", "Attempting to create file")
         IN  IF <<"create", file_name>> \in fault.fails
             THEN [s |-> Emit(s1, "ERROR", "Failed to create file!"), ok |-> FALSE]
             ELSE [s |-> Emit([s1 EXCEPT !.files =
                                  [f \in DOMAIN s1.files \cup {<<s1.cwd, file_name>>} |->
                                      IF f = <<s1.cwd, file_name>> THEN <<>> ELSE s1.files[f]]],
                              "DEBUG", "Successfully created file!"),
                   ok |-> TRUE]

\* Mbash::load_tracking_file: [s, ok]
load_tracking_file(s, fault) ==
    LET c == attempt_create_file(s, TRACKING_FILE_NAME, fault)
    IN  IF ~c.ok THEN c
        ELSE IF <<"read">> \in fault.fails THEN [s |-> c.s, ok |-> FALSE]
        ELSE LET file_contents == c.s.files[<<c.s.cwd, TRACKING_FILE_NAME>>]
                 parts == split(file_contents, "\n")
                 Track(i) == <<"DEBUG", "Tracking">>
             IN  IF file_contents = <<>>
                 THEN [s |-> Emit(c.s, "DEBUG", "Currently not tracking anything."),
                       ok |-> TRUE]
                 ELSE [s |-> [c.s EXCEPT
                                 !.log = @ \o [i \in 1..Len(parts) |-> Track(i)],
                                 !.tracking_files = @ \o parts],
                       ok |-> TRUE]

\* Mbash::setup: [s, ok]
setup(s, fault) ==
    load_tracking_file(set_current_dir(s, fault), fault)

\* Mbash::list_files
list_files(s, args, fault) ==
    LET s0 == Enter(s, "list_files")
    IN  IF <<"read_dir">> \in fault.fails \/ s0.current_path \notin Dirs \ Locked
        THEN Emit(s0, "ERROR", "Failed to read current directory's contents. 'ls' command failed.")
        ELSE LET entries == fault.listing.listed
                 end == fault.listing.end
                 Logged(e) == IF ~e.type_ok
                              THEN <<<<"DEBUG", "Failed determining whether entry is a dir or not">>>>
                              ELSE <<>>
                 Printed(e) == IF ~e.type_ok THEN <<<<e.name, "[?]">>>>
                               ELSE IF e.is_dir THEN <<<<e.name, "[DIR]">>>>
                               ELSE <<>>
                 RECURSIVE Cat(_, _, _)
                 Cat(F(_), es, acc) ==
                     IF es = <<>> THEN acc ELSE Cat(F, Tail(es), acc \o F(Head(es)))
                 \* the entries whose println! succeeded
                 written == IF end = "panic" THEN SubSeq(entries, 1, Len(entries) - 1)
                            ELSE entries
                 s1 == [s0 EXCEPT !.log = Cat(Logged, entries, @),
                                  !.stdout = Cat(Printed, written, @)]
             IN  IF end = "error" THEN Emit(s1, "ERROR", "Error reading file entry")
                 ELSE IF end = "panic" THEN Panic(s1, "failed printing to stdout")
                 ELSE s1

\* cd that re-reads the working directory whatever set_current_dir returned
cd_syncs_after_failure(s, args, fault) ==
    LET s0 == Emit(Enter(s, "cd"), "DEBUG", "huh")
    IN  IF Len(args) = 0
        THEN Panic(s0, "index out of bounds: the len is 0 but the index is 0")
        ELSE LET new_dir == args[1]
                 r == chdir(s0.cwd, new_dir)
             IN  IF new_dir = <<>>
                 THEN Emit(s0, "DEBUG", "'cd' command requires a directory as an argument [cd <directory>].")
                 ELSE IF r.ok
                 THEN set_current_dir(
                          Emit([s0 EXCEPT !.cwd = r.dir], "DEBUG", "Changed directory."),
                          fault)
                 ELSE set_current_dir(Emit(s0, "ERROR", "Failed to change directory."), fault)

\* cd that gives the session up when the directory change is refused
cd_exits_on_failure(s, args, fault) ==
    LET s0 == Emit(Enter(s, "cd"), "DEBUG", "huh")
    IN  IF Len(args) = 0
        THEN Panic(s0, "index out of bounds: the len is 0 but the index is 0")
        ELSE LET new_dir == args[1]
                 r == chdir(s0.cwd, new_dir)
             IN  IF new_dir = <<>>
                 THEN Emit(s0, "DEBUG", "'cd' command requires a directory as an argument [cd <directory>].")
                 ELSE IF r.ok
                 THEN set_current_dir(
                          Emit([s0 EXCEPT !.cwd = r.dir], "DEBUG", "Changed directory."),
                          fault)
                 ELSE exit(Emit(s0, "ERROR", "Failed to change directory."))

\* cd that extends current_path itself before it asks the OS
cd_pushes_path_first(s, args, fault) ==
    LET s0 == Emit(Enter(s, "cd"), "DEBUG", "huh")
    IN  IF Len(args) = 0
        THEN Panic(s0, "index out of bounds: the len is 0 but the index is 0")
        ELSE LET new_dir == args[1]
                 r == chdir(s0.cwd, new_dir)
             IN  IF new_dir = <<>>
                 THEN Emit(s0, "DEBUG", "'cd' command requires a directory as an argument [cd <directory>].")
                 ELSE IF r.ok
                 THEN set_current_dir(
                          Emit([s0 EXCEPT !.cwd = r.dir], "DEBUG", "Changed directory."),
                          fault)
                 ELSE Emit([s0 EXCEPT !.current_path = Append(@, new_dir[1])],
                           "ERROR", "Failed to change directory.")

\* Mbash::cd
cd(s, args, fault) ==
    LET s0 == Emit(Enter(s, "cd"), "DEBUG", "huh")
    IN  IF Len(args) = 0
        THEN Panic(s0, "index out of bounds: the len is 0 but the index is 0")
        ELSE LET new_dir == args[1]
                 r == chdir(s0.cwd, new_dir)
             IN  IF new_dir = <<>>
                 THEN Emit(s0, "DEBUG", "'cd' command requires a directory as an argument [cd <directory>].")
                 ELSE IF r.ok
                 THEN set_current_dir(
                          Emit([s0 EXCEPT !.cwd = r.dir], "DEBUG", "Changed directory."),
                          fault)
                 ELSE Emit(s0, "ERROR", "Failed to change directory.")

\* execute_internal_command that also knows exit
execute_internal_command_with_exit(s, command_name, args, fault) ==
    LET s0 == Emit(Enter(s, "execute_internal_command"), "DEBUG", "Received internal command.")
    IN  IF command_name = InitName
        THEN attempt_create_file(attempt_create_file(s0, IGNORE_FILE_NAME, fault).s,
                                 TRACKING_FILE_NAME, fault).s
        ELSE IF command_name = CdName THEN cd(s0, args, fault)
        ELSE IF command_name = exit_command THEN exit(s0)
        ELSE s0

\* Mbash::execute_internal_command
execute_internal_command(s, command_name, args, fault) ==
    LET s0 == Emit(Enter(s, "execute_internal_command"), "DEBUG", "Received internal command.")
    IN  IF command_name = InitName
        THEN attempt_create_file(attempt_create_file(s0, IGNORE_FILE_NAME, fault).s,
                                 TRACKING_FILE_NAME, fault).s
        ELSE IF command_name = CdName THEN cd(s0, args, fault)
        ELSE s0

\* execute_external_command without the cd branch
execute_external_command_without_cd(s, command_name, args, fault) ==
    LET s0 == Emit(Enter(s, "execute_external_command"), "DEBUG", "Received external command.")
    IN  IF command_name = LsName THEN list_files(s0, args, fault)
        ELSE s0

\* Mbash::execute_external_command
execute_external_command(s, command_name, args, fault) ==
    LET s0 == Emit(Enter(s, "execute_external_command"), "DEBUG", "Received external command.")
    IN  IF command_name = CdName THEN cd(s0, args, fault)
        ELSE IF command_name = LsName THEN list_files(s0, args, fault)
        ELSE s0

\* Mbash::handle_input
handle_input(s, input_line, fault) ==
    LET s0 == Emit(Enter(s, "handle_input"), "DEBUG", "Received input.")
        parts == split_whitespace(input_line)
    IN  IF parts = <<>>
        THEN Emit(s0, "DEBUG", "Splitting the input using whitespaces resulted in an empty vector.")
        ELSE IF parts[1] = internal_command_prefix
        THEN LET s1 == Emit(s0, "DEBUG", "Received an internal command.")
             IN  IF Len(parts) < 2
                 THEN Panic(s1, "index out of bounds: the len is 1 but the index is 1")
                 ELSE execute_internal_command(s1, parts[2], SubSeq(parts, 3, Len(parts)), fault)
        ELSE LET command_name == parts[1]
                 args == SubSeq(parts, 2, Len(parts))
             IN  IF command_name = exit_command
                 THEN exit(Emit(exit(s0), "INFO", "Received 'exit' command, exiting mbash."))
                 ELSE execute_external_command(s0, command_name, args, fault)

----------------------------------------------------------------------------
(* The lines standard input may deliver *)

Words == {internal_command_prefix, CdName, exit_command, LsName, InitName,
          <<"a">>, <<".", ".">>, <<"/", "a", "/", "b">>, <<"z">>, <<"k">>}

\* a command name followed by at most MaxArgs arguments, alone or behind the prefix
Bare == UNION {[1..n -> Words] : n \in 1..(MaxArgs + 1)}
TokenSeqs == Bare \cup {<<internal_command_prefix>> \o t : t \in Bare}

\* the white space around and between the tokens
Layouts == {[lead |-> <<>>, sep |-> <<" ">>, trail |-> <<"\n">>],
            [lead |-> <<" ">>, sep |-> <<"\t", " ">>, trail |-> <<" ", "\r", "\n">>]}

RECURSIVE Join(_, _)
Join(toks, sep) ==
    IF toks = <<>> THEN <<>>
    ELSE IF Len(toks) = 1 THEN toks[1]
    ELSE toks[1] \o sep \o Join(Tail(toks), sep)

\* end of file (no bytes read), blank lines, and command lines
BlankLines == {<<>>, <<"\n">>, <<" ", "\t", "\n">>}
Lines == BlankLines \cup {l.lead \o Join(t, l.sep) \o l.trail : t \in TokenSeqs, l \in Layouts}

----------------------------------------------------------------------------
(* The state machine: main, then the iterations of run *)

ExitSuccess == 0
PanicStatus == 101

Session == [exiting |-> exiting, current_path |-> current_path,
            tracking_files |-> tracking_files, cwd |-> cwd, files |-> files,
            log |-> log, stdout |-> stdout, stderr |-> stderr, calls |-> calls,
            spawned |-> spawned, panicked |-> FALSE]

Commit(s) ==
    /\ exiting' = s.exiting
    /\ current_path' = s.current_path
    /\ tracking_files' = s.tracking_files
    /\ cwd' = s.cwd
    /\ files' = s.files
    /\ log' = s.log
    /\ stdout' = s.stdout
    /\ stderr' = s.stderr
    /\ calls' = s.calls
    /\ spawned' = s.spawned

\* the files a tracking file found at startup adds to an empty file system
InitialFiles ==
    {<<>>} \cup {[f \in {<<StartDir, TRACKING_FILE_NAME>>} |-> c] : c \in TrackContents}

Init ==
    /\ pc = "start"
    /\ exiting = new.exiting
    /\ current_path = new.current_path
    /\ tracking_files = new.tracking_files
    /\ cwd = StartDir
    /\ files \in InitialFiles
    /\ input = <<>>
    /\ log = <<>>
    /\ stdout = <<>>
    /\ stderr = <<>>
    /\ calls = <<>>
    /\ spawned = <<>>
    /\ iter = 0
    /\ reads = 0
    /\ exit_status = <<>>

\* the OS calls made on a bookkeeping file
FileCalls(file_name) == {<<"exists", file_name>>, <<"create", file_name>>}

\* the OS calls of setup; any of them may fail in the same start
SetupCalls == {<<"getcwd">>, <<"read">>} \cup FileCalls(TRACKING_FILE_NAME)
SetupFaults == {[fails |-> F, listing |-> NoListing] : F \in SUBSET SetupCalls}

\* the OS calls the dispatch of a line can reach: getcwd after the chdir of
\* cd, the calls on both files for m init, read_dir for ls
Reached(input_line) ==
    LET parts == split_whitespace(input_line)
        name == IF parts = <<>> THEN <<>>
                ELSE IF parts[1] # internal_command_prefix THEN parts[1]
                ELSE IF Len(parts) >= 2 THEN parts[2] ELSE <<>>
        internal == parts # <<>> /\ parts[1] = internal_command_prefix
    IN  IF name = CdName THEN {<<"getcwd">>}
        ELSE IF internal /\ name = InitName
             THEN FileCalls(IGNORE_FILE_NAME) \cup FileCalls(TRACKING_FILE_NAME)
        ELSE IF ~internal /\ name = LsName THEN {<<"read_dir">>}
        ELSE {}

\* the directory is iterated by the lines whose first word is ls only
Listings(s, input_line) ==
    LET parts == split_whitespace(input_line)
    IN  IF parts # <<>> /\ parts[1] = LsName /\ s.current_path \in Dirs \ Locked
        THEN read_dir(s.current_path, s.files)
        ELSE {NoListing}

\* every way the OS calls of a dispatch can go: any of the calls it reaches
\* may fail, each on its own
DispatchFaults(s, input_line) ==
    UNION {{[fails |-> F, listing |-> l] :
               l \in IF <<"read_dir">> \in F THEN {NoListing} ELSE Listings(s, input_line)} :
           F \in SUBSET Reached(input_line)}

\* main: construct, set up, and enter run or report the failed setup
main ==
    /\ pc = "start"
    /\ \E fault \in SetupFaults :
        /\ \E r \in {setup(Session, fault)} :
               IF r.ok
               THEN /\ Commit(r.s)
                    /\ pc' = "loop"
                    /\ exit_status' = <<>>
               ELSE /\ Commit([r.s EXCEPT !.stderr =
                                  Append(@, "Mbash setup process failed. Check logs for more details.")])
                    /\ pc' = "done"
                    /\ exit_status' = <<ExitSuccess>>
        /\ UNCHANGED <<input, iter, reads>>

\* run: the loop condition is false, run returns and main ends
run_return ==
    /\ pc = "loop"
    /\ exiting
    /\ pc' = "done"
    /\ exit_status' = <<ExitSuccess>>
    /\ UNCHANGED <<exiting, current_path, tracking_files, cwd, files, input, log,
                   stdout, stderr, calls, spawned, iter, reads>>

\* run: an iteration starts, the prompt is printed and flushed
run_prompt ==
    /\ pc = "loop"
    /\ ~exiting
    /\ iter < MaxIter
    /\ iter' = iter + 1
    /\ stdout' = <<<<"mbash@", current_path>>>>
    /\ log' = <<>>
    /\ pc' = "read"
    /\ input' = <<>>
    /\ calls' = <<>>
    /\ spawned' = <<>>
    /\ UNCHANGED <<exiting, current_path, tracking_files, cwd, files, stderr,
                   reads, exit_status>>

\* the flush fails and the iteration goes on to read_line: no continue
run_flush_fails_then_reads ==
    /\ pc = "loop"
    /\ ~exiting
    /\ iter < MaxIter
    /\ iter' = iter + 1
    /\ stdout' = <<<<"mbash@", current_path>>>>
    /\ log' = <<<<"ERROR", "Flush failed due to an error">>>>
    /\ pc' = "read"
    /\ input' = <<>>
    /\ calls' = <<>>
    /\ spawned' = <<>>
    /\ UNCHANGED <<exiting, current_path, tracking_files, cwd, files, stderr,
                   reads, exit_status>>

\* run: the flush of the prompt fails, the iteration is given up
run_flush_fails ==
    /\ pc = "loop"
    /\ ~exiting
    /\ iter < MaxIter
    /\ iter' = iter + 1
    /\ stdout' = <<<<"mbash@", current_path>>>>
    /\ log' = <<<<"ERROR", "Flush failed due to an error">>>>
    /\ pc' = "loop"
    /\ input' = <<>>
    /\ calls' = <<>>
    /\ spawned' = <<>>
    /\ UNCHANGED <<exiting, current_path, tracking_files, cwd, files, stderr,
                   reads, exit_status>>

\* run: read_line fails
run_read_fails ==
    /\ pc = "read"
    /\ reads' = reads + 1
    /\ log' = Append(log, <<"ERROR", "Failed to read user input due to an error.">>)
    /\ pc' = "loop"
    /\ UNCHANGED <<exiting, current_path, tracking_files, cwd, files, input,
                   stdout, stderr, calls, spawned, iter, exit_status>>

\* the empty line is handed to handle_input: no continue
run_read_empty_dispatches ==
    /\ pc = "read"
    /\ \E line \in Lines :
        /\ Trim(line) = <<>>
        /\ reads' = reads + 1
        /\ input' = line
        /\ Commit(handle_input(Emit(Session, "DEBUG", "User input is empty."),
                               Trim(line), NoFault))
        /\ pc' = "loop"
        /\ UNCHANGED <<iter, exit_status>>

\* a read of zero bytes ends the loop
run_read_empty_stops_at_eof ==
    /\ pc = "read"
    /\ \E line \in Lines :
        /\ Trim(line) = <<>>
        /\ reads' = reads + 1
        /\ input' = line
        /\ log' = Append(log, <<"DEBUG", "User input is empty.">>)
        /\ pc' = IF line = <<>> THEN "done" ELSE "loop"
        /\ exit_status' = IF line = <<>> THEN <<ExitSuccess>> ELSE <<>>
        /\ UNCHANGED <<exiting, current_path, tracking_files, cwd, files, stdout,
                       stderr, calls, spawned, iter>>

\* run: a line is read that is empty once trimmed
run_read_empty ==
    /\ pc = "read"
    /\ \E line \in Lines :
        /\ Trim(line) = <<>>
        /\ reads' = reads + 1
        /\ input' = line
        /\ log' = Append(log, <<"DEBUG", "User input is empty.">>)
        /\ pc' = "loop"
        /\ UNCHANGED <<exiting, current_path, tracking_files, cwd, files, stdout,
                       stderr, calls, spawned, iter, exit_status>>

\* run: a line is read and handed to handle_input
run_dispatch ==
    /\ pc = "read"
    /\ \E line \in Lines : \E command_line \in {Trim(line)} :
        /\ command_line # <<>>
        /\ reads' = reads + 1
        /\ input' = line
        /\ \E fault \in DispatchFaults(Session, command_line) :
             \E s \in {handle_input(Session, command_line, fault)} :
               /\ Commit(s)
               /\ pc' = IF s.panicked THEN "panicked" ELSE "loop"
               /\ exit_status' = IF s.panicked THEN <<PanicStatus>> ELSE <<>>
        /\ UNCHANGED iter

Next ==
    \/ main
    \/ run_return
    \/ run_prompt
    \/ run_flush_fails
    \/ run_read_fails
    \/ run_read_empty
    \/ run_dispatch

Spec == Init /\ [][Next]_vars

----------------------------------------------------------------------------
(* The methods of Mbash called in any order, MaxOps calls at most.  "iter"   *)
(* counts the calls; log, stdout, calls and spawned hold the last call's.    *)

\* the session as a call finds it: the fields and the OS state, outputs empty
Fresh == [Session EXCEPT !.log = <<>>, !.stdout = <<>>, !.calls = <<>>, !.spawned = <<>>]

\* the command lines as run hands them to handle_input, trimmed: a command
\* name alone or with one argument, bare or behind the prefix
OneOrTwo == [{1} -> Words] \cup [{1, 2} -> Words]
TrimmedLines ==
    {Join(t, <<" ">>) : t \in OneOrTwo \cup {<<internal_command_prefix>> \o u : u \in OneOrTwo}}

call_setup ==
    /\ pc \in {"start", "ops"}
    /\ iter < MaxOps
    /\ \E fault \in SetupFaults :
           Commit(setup(Fresh, fault).s)
    /\ pc' = "ops"
    /\ iter' = iter + 1
    /\ UNCHANGED <<input, reads, exit_status>>

call_exit ==
    /\ pc \in {"start", "ops"}
    /\ iter < MaxOps
    /\ Commit(exit(Fresh))
    /\ pc' = "ops"
    /\ iter' = iter + 1
    /\ UNCHANGED <<input, reads, exit_status>>

call_handle_input ==
    /\ pc \in {"start", "ops"}
    /\ iter < MaxOps
    /\ \E line \in TrimmedLines :
         \E fault \in DispatchFaults(Fresh, line) :
           \E s \in {handle_input(Fresh, line, fault)} :
               /\ Commit(s)
               /\ pc' = IF s.panicked THEN "panicked" ELSE "ops"
               /\ exit_status' = IF s.panicked THEN <<PanicStatus>> ELSE <<>>
    /\ iter' = iter + 1
    /\ UNCHANGED <<input, reads>>

NextOps ==
    \/ call_setup
    \/ call_exit
    \/ call_handle_input

SpecOps == Init /\ [][NextOps]_vars

----------------------------------------------------------------------------
(* Vocabulary of the properties *)

Range(f) == {f[i] : i \in DOMAIN f}
\* the tokens of the line read in the current iteration
Parts == split_whitespace(Trim(input))
\* the current iteration handed its line to handle_input
Dispatched == calls # <<>> /\ calls[1] = "handle_input"
ErrorCount(l) == Cardinality({i \in DOMAIN l : l[i][1] = "ERROR"})
FetchFailed == <<"ERROR", "Failed to fetch current directory path.">> \in Range(log)
PromptOf(path) == <<"mbash@", path>>

----------------------------------------------------------------------------
(* C1 *)

ExitDispatched == Dispatched /\ Parts[1] = exit_command

\* C1: once a line whose first token is exit has been dispatched, the flag is
\* set and every later step is run returning: no prompt is printed, no line
\* read and nothing dispatched, whatever input remains.
C1_ExitIsAbsorbing ==
    [][ExitDispatched =>
          /\ exiting /\ exiting'
          /\ pc \in {"loop", "done"} /\ pc' = "done"
          /\ iter' = iter /\ reads' = reads
          /\ stdout' = stdout /\ input' = input /\ calls' = calls /\ log' = log
          /\ cwd' = cwd /\ current_path' = current_path /\ files' = files]_vars

C1_Witness == ExitDispatched /\ pc = "done" /\ iter < MaxIter

----------------------------------------------------------------------------
(* C2, C3, C4: dispatch and the slices it indexes *)

\* the step reads a line with these tokens and hands it to handle_input
Dispatches(toks) ==
    /\ pc = "read"
    /\ reads' = reads + 1
    /\ calls' # <<>> /\ calls'[1] = "handle_input"
    /\ split_whitespace(Trim(input')) = toks

\* the Mbash fields and the working directory are what they were
SessionUnchanged ==
    /\ exiting' = exiting
    /\ current_path' = current_path
    /\ tracking_files' = tracking_files
    /\ cwd' = cwd

CdUsage == <<"DEBUG", "'cd' command requires a directory as an argument [cd <directory>].">>
Occurrences(l, e) == Cardinality({i \in DOMAIN l : l[i] = e})

\* C2: the line "cd" is a no-op: one diagnostic, current_path and the flag
\* unchanged, no out-of-bounds failure, and the loop is back at the prompt.
C2_CdWithoutArgumentIsNoOp ==
    [][Dispatches(<<CdName>>) =>
          /\ pc' = "loop"
          /\ SessionUnchanged
          /\ stderr' = stderr
          /\ Occurrences(log', CdUsage) = 1]_vars

\* C3: the line "m" is a no-op: it is logged, the session is unchanged, no
\* out-of-bounds access is made and the loop is back at the prompt.
C3_PrefixAloneIsNoOp ==
    [][Dispatches(<<internal_command_prefix>>) =>
          /\ pc' = "loop"
          /\ SessionUnchanged
          /\ stderr' = stderr
          /\ log' # <<>>]_vars

\* C4: whatever line is dispatched, handle_input returns to run, which is then
\* at the top of the loop (flag unset) or ends (flag set): the process never
\* aborts inside dispatch.
C4_DispatchNeverUnwinds ==
    Dispatched => /\ pc \in {"loop", "done"}
                  /\ (pc = "done" => exiting)
                  /\ stderr = <<>>

----------------------------------------------------------------------------
(* C5, C6: commands that are neither internal nor built in *)

\* the programs found on the search path
Programs == {LsName, CdName, <<"a">>}

IsExternal(toks) ==
    toks # <<>> /\ toks[1] \notin {internal_command_prefix, CdName, exit_command}

\* C5: a command that is neither internal nor built in is launched as a child
\* process, named by the first token, with the remaining tokens as arguments,
\* and the launch is over when the loop is back at the prompt.
C5_ExternalCommandIsLaunched ==
    (Dispatched /\ IsExternal(Parts) /\ pc = "loop") =>
        spawned = <<[program |-> Parts[1], args |-> Tail(Parts)]>>

\* C6: a command name that resolves to no program produces a launch-failure
\* diagnostic, leaves the flag unset, and the loop is back at the prompt.
C6_UnknownProgramIsReported ==
    (Dispatched /\ IsExternal(Parts) /\ Parts[1] \notin Programs) =>
        /\ ErrorCount(log) >= 1
        /\ ~exiting
        /\ pc = "loop"

----------------------------------------------------------------------------
(* C7: a directory change that fails *)

\* the step dispatches "cd <dir>" and the OS refuses the change to <dir>
DispatchesFailingCd ==
    /\ pc = "read"
    /\ reads' = reads + 1
    /\ calls' # <<>> /\ calls'[1] = "handle_input"
    /\ \E toks \in {split_whitespace(Trim(input'))} :
           /\ Len(toks) >= 2
           /\ toks[1] = CdName
           /\ ~chdir(cwd, toks[2]).ok

\* C7: cd to a directory the OS refuses leaves current_path, the flag and the
\* working directory unchanged, logs exactly one error, and the loop is back
\* at the prompt.
C7_FailedCdChangesNothing ==
    [][DispatchesFailingCd =>
          /\ SessionUnchanged
          /\ ErrorCount(log') = 1
          /\ pc' = "loop"]_vars

C7_Witness ==
    /\ Dispatched /\ pc = "loop"
    /\ Len(Parts) >= 2 /\ Parts[1] = CdName /\ Parts[2] \in {<<"z">>, <<"k">>}
    /\ ErrorCount(log) = 1
    /\ cwd = Root /\ current_path = Root

----------------------------------------------------------------------------
(* C8: the prompt and the working directory *)

\* the prompt of this iteration is printed and nothing has been dispatched since
AtPrompt == stdout # <<>> /\ stdout[1][1] = "mbash@" /\ calls = <<>>

\* C8: a prompt that is printed shows current_path, which is the process's
\* working directory; when a fetch of the working directory failed the flag is
\* set and run is not past the loop condition, so no prompt follows.
C8_PromptShowsWorkingDirectory ==
    /\ AtPrompt => (stdout[1] = PromptOf(cwd) /\ current_path = cwd)
    /\ pc = "read" => AtPrompt
    /\ FetchFailed => (exiting /\ pc \in {"loop", "done"})
    /\ (pc \in {"loop", "read"} /\ ~exiting) => current_path = cwd

C8_Witness == pc = "read" /\ cwd # StartDir /\ stdout = <<PromptOf(cwd)>> /\ iter = MaxIter

----------------------------------------------------------------------------
(* C9: exit status *)

\* C9: when the working directory cannot be determined at startup the cause is
\* logged, the flag is set and the process ends with a non-zero status; after
\* a dispatched exit it ends with status success.
C9_ExitStatus ==
    /\ (pc = "done" /\ iter = 0 /\ FetchFailed) =>
           (exiting /\ exit_status # <<>> /\ exit_status # <<ExitSuccess>>)
    /\ (pc = "done" /\ ExitDispatched) => exit_status = <<ExitSuccess>>

----------------------------------------------------------------------------
(* C10: built-ins shadow programs *)

\* C10: a dispatched line whose first token is cd enters Mbash::cd and
\* launches no child process, although a program named cd is on the search path.
C10_CdIsBuiltIn ==
    (Dispatched /\ Parts[1] = CdName) =>
        /\ CdName \in Programs
        /\ calls[2] = "execute_external_command"
        /\ Len(calls) >= 3 /\ calls[3] = "cd"
        /\ spawned = <<>>

C10_Witness ==
    /\ Dispatched /\ Parts[1] = CdName /\ pc = "loop"
    /\ "cd" \in Range(calls) /\ spawned = <<>>
    /\ cwd = <<"/", "a", "b">> /\ current_path = cwd

----------------------------------------------------------------------------
(* C11: exit called again.  Checked with the methods called in any order. *)

ExitInfo == <<"INFO", "Received 'exit' command, exiting mbash.">>

\* nothing but the flag and the record of the call differs after the step
OnlyFlagMayChange ==
    /\ current_path' = current_path
    /\ tracking_files' = tracking_files
    /\ cwd' = cwd
    /\ files' = files
    /\ stderr' = stderr
    /\ stdout' = <<>>
    /\ spawned' = <<>>

\* the step is one call of Mbash::exit
CallsExit == iter' = iter + 1 /\ calls' = <<"exit">>
\* the step is handle_input on a line whose first token is exit
HandlesExitLine ==
    iter' = iter + 1 /\ Len(calls') >= 2 /\ calls'[1] = "handle_input" /\ calls'[2] = "exit"

\* C11: Mbash::exit called with the flag set leaves it set and changes nothing
\* else; handle_input on an exit line, which calls it twice, ends in the
\* state one call gives, with the single message of handle_input in the log.
C11_ExitIsIdempotent ==
    [][/\ (exiting /\ CallsExit) =>
              (exiting' /\ log' = <<>> /\ OnlyFlagMayChange)
       /\ CallsExit => (exiting' /\ log' = <<>> /\ OnlyFlagMayChange)
       /\ HandlesExitLine =>
              /\ calls' = <<"handle_input", "exit", "exit">>
              /\ exiting'
              /\ Occurrences(log', ExitInfo) = 1
              /\ log' = <<<<"DEBUG", "Received input.">>, ExitInfo>>
              /\ OnlyFlagMayChange
              /\ pc' = "ops"]_vars

C11_Witness ==
    /\ pc = "ops" /\ iter = MaxOps
    /\ calls = <<"handle_input", "exit", "exit">>
    /\ exiting
    /\ Occurrences(log, ExitInfo) = 1

----------------------------------------------------------------------------
(* C18: the flag never goes back.  Checked with the methods called in any order. *)

\* C18: the flag starts unset and no method clears it once it is set,
\* whatever the order of the calls.
C18_FlagIsMonotonic ==
    [][/\ (pc = "start" /\ iter = 0) => ~exiting
       /\ exiting => exiting']_vars

\* the flag is still set after a later handle_input that is not an exit line
C18_Witness ==
    /\ pc = "ops" /\ iter = MaxOps
    /\ exiting
    /\ calls # <<>> /\ calls[1] = "handle_input" /\ "exit" \notin Range(calls)

----------------------------------------------------------------------------
(* C12: m init *)

\* the step dispatches a line that starts with the tokens "m init"
DispatchesInit ==
    /\ pc = "read"
    /\ reads' = reads + 1
    /\ calls' # <<>> /\ calls'[1] = "handle_input"
    /\ \E toks \in {split_whitespace(Trim(input'))} :
           /\ Len(toks) >= 2
           /\ toks[1] = internal_command_prefix
           /\ toks[2] = InitName

BookFiles == {<<cwd, IGNORE_FILE_NAME>>, <<cwd, TRACKING_FILE_NAME>>}

\* the files that existed are untouched, and what is new is an empty
\* bookkeeping file of the working directory
InitOnlyAddsEmptyFiles ==
    /\ \A f \in DOMAIN files : f \in DOMAIN files' /\ files'[f] = files[f]
    /\ \A f \in DOMAIN files' \ DOMAIN files : f \in BookFiles /\ files'[f] = <<>>

InitReturns == pc' = "loop" /\ stderr' = stderr /\ SessionUnchanged

\* C12 as claimed: after "m init" both bookkeeping files exist, files that
\* existed are neither recreated nor truncated, a second "m init" changes
\* nothing, and the command does not fail without arguments.
C12_InitEnsuresBothFiles ==
    [][DispatchesInit =>
          /\ BookFiles \subseteq DOMAIN files'
          /\ InitOnlyAddsEmptyFiles
          /\ (BookFiles \subseteq DOMAIN files => files' = files)
          /\ InitReturns]_vars

----------------------------------------------------------------------------
(* C13: the tokenizer *)

\* position i of s starts a maximal run of non-white-space characters
StartsRun(s, i) == ~IsWhitespace(s[i]) /\ (i = 1 \/ IsWhitespace(s[i - 1]))
RunStarts(s) == {i \in 1..Len(s) : StartsRun(s, i)}
\* the last position of the run that starts at i
RunEnd(s, i) ==
    CHOOSE j \in i..Len(s) :
        /\ \A k \in i..j : ~IsWhitespace(s[k])
        /\ (j = Len(s) \/ IsWhitespace(s[j + 1]))

\* toks are the maximal runs of s, from left to right
AreTheRunsOf(toks, s) ==
    /\ Len(toks) = Cardinality(RunStarts(s))
    /\ \A i \in RunStarts(s) :
           toks[Cardinality({h \in RunStarts(s) : h <= i})] = SubSeq(s, i, RunEnd(s, i))

LsLaExample == <<" ", " ", "l", "s", " ", " ", " ", "-", "l", "a", " ", " ">>

\* C13: the tokens handle_input gets from a non-empty trimmed line are its
\* white-space-delimited substrings in their order, none of them empty;
\* "  ls   -la  " gives [ls, -la].
C13_TokensAreTheWords ==
    /\ Dispatched =>
           \E line \in {Trim(input)} :
               \E toks \in {split_whitespace(line)} :
                   /\ line # <<>>
                   /\ toks # <<>>
                   /\ \A k \in DOMAIN toks : toks[k] # <<>>
                   /\ AreTheRunsOf(toks, line)
    /\ split_whitespace(LsLaExample) = <<LsName, <<"-", "l", "a">>>>

C13_Witness ==
    /\ Dispatched
    /\ input = <<" ", "l", "s", "\t", " ", "a", " ", "\r", "\n">>
    /\ Parts = <<LsName, <<"a">>>>

----------------------------------------------------------------------------
(* C14: who sets the flag *)

FetchFailedIn(l) == <<"ERROR", "Failed to fetch current directory path.">> \in Range(l)

\* the step sets the flag
SetsFlag == ~exiting /\ exiting'

\* the step dispatches a line whose first token is exit
DispatchesExitLine ==
    /\ pc = "read"
    /\ calls' # <<>> /\ calls'[1] = "handle_input"
    /\ \E toks \in {split_whitespace(Trim(input'))} : toks[1] = exit_command

\* the step dispatches cd, bare or behind the prefix, the directory change
\* succeeds and the fetch of the new working directory fails
DispatchesCdWithFailedFetch ==
    /\ pc = "read"
    /\ calls' # <<>> /\ calls'[1] = "handle_input"
    /\ FetchFailedIn(log')
    /\ \E toks \in {split_whitespace(Trim(input'))} :
           \/ Len(toks) >= 2 /\ toks[1] = CdName
                 /\ chdir(cwd, toks[2]).ok /\ cwd' = chdir(cwd, toks[2]).dir
           \/ Len(toks) >= 3 /\ toks[1] = internal_command_prefix /\ toks[2] = CdName
                 /\ chdir(cwd, toks[3]).ok /\ cwd' = chdir(cwd, toks[3]).dir

StartupFetchFails == pc = "start" /\ FetchFailedIn(log')

\* C14 as claimed: only an exit line or the fatal startup error sets the flag;
\* no other dispatched command does, cd included, whatever its outcome.
C14_OnlyExitSetsFlag ==
    [][SetsFlag => (DispatchesExitLine \/ StartupFetchFails)]_vars

\* C14 as amended: the flag is set only by an exit line or by a failed fetch
\* of the working directory, at startup or after a cd whose directory change
\* succeeded.
C14_OnlyExitOrFailedFetchSetsFlag ==
    [][SetsFlag =>
          (DispatchesExitLine \/ StartupFetchFails \/ DispatchesCdWithFailedFetch)]_vars

C14_Witness ==
    /\ Dispatched /\ pc = "loop"
    /\ Parts = <<CdName, <<".", ".">>>>
    /\ FetchFailed /\ exiting
    /\ cwd = Root /\ current_path = StartDir

----------------------------------------------------------------------------
(* C15: who changes current_path *)

\* the step dispatches cd, bare or behind the prefix, and the directory
\* change succeeds
DispatchesSuccessfulCd ==
    /\ pc = "read"
    /\ calls' # <<>> /\ calls'[1] = "handle_input"
    /\ \E toks \in {split_whitespace(Trim(input'))} :
           \/ Len(toks) >= 2 /\ toks[1] = CdName /\ chdir(cwd, toks[2]).ok
           \/ Len(toks) >= 3 /\ toks[1] = internal_command_prefix /\ toks[2] = CdName
                 /\ chdir(cwd, toks[3]).ok

\* C15: current_path changes only at startup and in a cd whose directory
\* change succeeded, and then to the working directory the OS reports; every
\* other step of the loop leaves it as it was.
C15_OnlyCdChangesPath ==
    [][current_path' # current_path =>
          /\ pc = "start" \/ DispatchesSuccessfulCd
          /\ current_path' = cwd']_vars

\* a failed cd after a successful one: the path of the first is still there
C15_Witness ==
    /\ Dispatched /\ pc = "loop" /\ iter = MaxIter
    /\ Parts = <<CdName, <<"z">>>>
    /\ current_path = <<"/", "a", "b">>
    /\ ErrorCount(log) = 1

----------------------------------------------------------------------------
(* C16, C17: iterations that dispatch nothing *)

FlushError == <<"ERROR", "Flush failed due to an error">>
ReadError == <<"ERROR", "Failed to read user input due to an error.">>

\* the step starts an iteration whose flush fails
FlushFails == pc = "loop" /\ iter' = iter + 1 /\ log' = <<FlushError>>
\* the step is a read_line that fails
ReadFails == pc = "read" /\ reads' = reads + 1 /\ log' = Append(log, ReadError)

\* nothing is dispatched and the loop is at its top with the session as it was
BackAtPromptUntouched ==
    /\ pc' = "loop"
    /\ calls' = <<>>
    /\ spawned' = <<>>
    /\ SessionUnchanged
    /\ files' = files
    /\ stderr' = stderr

\* C16: when the flush of the prompt fails no line is read and nothing is
\* dispatched in that iteration and the loop restarts; a failed read
\* dispatches nothing either and the loop restarts.
C16_FailedFlushOrReadDispatchesNothing ==
    [][/\ FlushFails => (reads' = reads /\ input' = <<>> /\ BackAtPromptUntouched)
       /\ ReadFails => (input' = <<>> /\ BackAtPromptUntouched)]_vars

\* every iteration so far failed at the flush and none has read
C16_Witness ==
    /\ pc = "loop" /\ iter = MaxIter /\ reads = 0
    /\ log = <<FlushError>>
    /\ calls = <<>> /\ input = <<>>

\* the step reads a line that is empty once trimmed
ReadsEmptyLine == pc = "read" /\ reads' = reads + 1 /\ Trim(input') = <<>>

\* C17: a line that is empty after trimming is not dispatched: handle_input
\* is not entered, current_path and the flag are unchanged and the loop
\* restarts.
C17_EmptyLineIsNotDispatched ==
    [][ReadsEmptyLine => BackAtPromptUntouched]_vars

C17_Witness ==
    /\ pc = "loop" /\ reads = 1
    /\ input = <<" ", "\t", "\n">>
    /\ calls = <<>> /\ ~exiting /\ current_path = StartDir

----------------------------------------------------------------------------
(* C19: end of file *)

\* the step is a read_line that returns no bytes
ReadsEndOfFile == pc = "read" /\ reads' = reads + 1 /\ input' = <<>>

\* C19: run returns only from the top of the loop with the flag set; a read
\* at end of file leaves the flag unset and goes back to the top of the loop,
\* from where, the flag unset, the only steps are the next prompt.
C19_OnlyTheFlagEndsRun ==
    [][/\ (pc # "start" /\ pc' = "done") => (pc = "loop" /\ exiting)
       /\ (pc = "loop" /\ ~exiting) => (pc' \in {"loop", "read"} /\ iter' = iter + 1)
       /\ ReadsEndOfFile =>
              (pc' = "loop" /\ exiting' = exiting /\ ~exiting' /\ calls' = <<>>
               /\ exit_status' = <<>>)]_vars

\* every iteration so far read, the last one at end of file, and run goes on
C19_Witness ==
    /\ pc = "loop" /\ iter = MaxIter /\ reads = MaxIter
    /\ input = <<>>
    /\ log = <<<<"DEBUG", "User input is empty.">>>>
    /\ ~exiting /\ exit_status = <<>>

----------------------------------------------------------------------------
(* C20: exit and cd behind the prefix *)

\* what cd <d> does: the working directory becomes d when the OS accepts it,
\* current_path follows it unless the fetch fails, which sets the flag
CdEffect(d) ==
    /\ cwd' = IF chdir(cwd, d).ok THEN chdir(cwd, d).dir ELSE cwd
    /\ \/ current_path' = cwd' /\ exiting' = exiting
       \/ chdir(cwd, d).ok /\ FetchFailedIn(log') /\ exiting'
             /\ current_path' = current_path
    /\ pc' = "loop"
    /\ "cd" \in Range(calls')

\* C20: "m exit" does not set the flag and the loop goes on: exit is
\* recognised as the first token only; "m cd <dir>" changes the directory as
\* "cd <dir>" does.
C20_ExitOnlyAsFirstToken ==
    [][(pc = "read" /\ reads' = reads + 1 /\ calls' # <<>> /\ calls'[1] = "handle_input") =>
          \E toks \in {split_whitespace(Trim(input'))} :
              /\ (Len(toks) >= 2 /\ toks[1] = internal_command_prefix /\ toks[2] = exit_command) =>
                     /\ ~exiting /\ ~exiting'
                     /\ "exit" \notin Range(calls')
                     /\ pc' = "loop"
                     /\ SessionUnchanged
              /\ (Len(toks) >= 3 /\ toks[1] = internal_command_prefix /\ toks[2] = CdName) =>
                     CdEffect(toks[3])
              /\ (Len(toks) >= 2 /\ toks[1] = CdName) => CdEffect(toks[2])]_vars

C20_Witness ==
    /\ Dispatched /\ pc = "loop" /\ iter = MaxIter
    /\ Parts = <<internal_command_prefix, exit_command>>
    /\ ~exiting
    /\ calls = <<"handle_input", "execute_internal_command">>

====
